---- MODULE Spec2Model ----
(***************************************************************************)
(* A model of the arXiv search server (src/arxiv_mcp_server.py): the query *)
(* normalisation of search_papers, the per-topic papers_info.json          *)
(* registries it merges into, the cross-topic lookup extract_info, and the *)
(* texts of get_available_folders and get_topic_papers.                    *)
(*                                                                         *)
(* Python strings are TLA+ strings; an Optional[str] is <<>> (None) or     *)
(* <<s>>.  A registry file is a record [kind, keys, recs]: kind "absent"   *)
(* (no papers_info.json in the directory), "corrupt" (json.load raises     *)
(* JSONDecodeError; keys and recs are what the file held before it was     *)
(* damaged) or "json" (a document with the identifiers keys, in insertion  *)
(* order, and the record recs[k] under each).                              *)
(***************************************************************************)
EXTENDS Naturals, Sequences, FiniteSets, TLC

VARIABLES
    rootExists,   \* os.path.exists(PAPER_DIR)
    dirs,         \* topic directories under PAPER_DIR: slug -> registry file
    pc,           \* per caller: "idle" or "iterating" (inside search_papers)
    loc,          \* per caller: the locals of its search_papers call in flight
    ret,          \* per caller: what its last search_papers call returned or
                  \* raised
    prev,         \* what the search_papers call before that one returned
    out,          \* what the last call of extract_info, get_available_folders
                  \* or get_topic_papers returned, while the files are as it
                  \* read them
    ops,          \* completed and external steps so far (bounds the run)
    norm          \* the last normalisation: inputs and the values derived

vars == <<rootExists, dirs, pc, loc, ret, prev, out, ops, norm>>

(***************************************************************************)
(* Bounds of the model.                                                    *)
(***************************************************************************)
MaxOps == 2          \* searches per run of the sequential specification
MaxCorrupt == 1      \* external corruptions of a registry file per run
MaxViewLen == 3      \* results of the search that fills a rendered registry

(***************************************************************************)
(* Python's str and list operations.                                       *)
(***************************************************************************)
None == <<>>
Some(s) == <<s>>

\* bool(x) of an Optional[str]: None and "" are falsy.
Truthy(o) == o # None /\ o[1] # ""

\* str(x) inside an f-string: None prints as "None".
Fmt(o) == IF o = None THEN "None" ELSE o[1]

Min(a, b) == IF a <= b THEN a ELSE b

\* the letters: << capital, small >>
LetterPairs ==
    { << "A", "a" >>, << "B", "b" >>, << "C", "c" >>, << "D", "d" >>, <<
      "E", "e" >>, << "F", "f" >>, << "G", "g" >>, << "H", "h" >>, << "I",
      "i" >>, << "J", "j" >>, << "K", "k" >>, << "L", "l" >>, << "M", "m"
      >>, << "N", "n" >>, << "O", "o" >>, << "P", "p" >>, << "Q", "q" >>, <<
      "R", "r" >>, << "S", "s" >>, << "T", "t" >>, << "U", "u" >>, << "V",
      "v" >>, << "W", "w" >>, << "X", "x" >>, << "Y", "y" >>, << "Z", "z" >>
      }

\* c.lower() of each capital c
LowerTable ==
    [c \in { l[1] : l \in LetterPairs } |->
        (CHOOSE l \in LetterPairs : l[1] = c)[2]]

\* c.lower() for one character
LowerChar(c) == IF c \in DOMAIN LowerTable THEN LowerTable[c] ELSE c

RECURSIVE Lower(_)
\* s.lower()
Lower(s) == IF s = "" THEN "" ELSE LowerChar(Head(s)) \o Lower(Tail(s))

RECURSIVE Replace(_, _, _)
\* s.replace(c, r) for a one-character c
Replace(s, c, r) ==
    IF s = "" THEN ""
    ELSE (IF Head(s) = c THEN r ELSE Head(s)) \o Replace(Tail(s), c, r)

\* s[:n]
Take(s, n) == SubSeq(s, 1, Min(n, Len(s)))

RECURSIVE Join(_, _)
\* sep.join(parts)
Join(parts, sep) ==
    IF parts = <<>> THEN ""
    ELSE IF Len(parts) = 1 THEN parts[1]
    ELSE parts[1] \o sep \o Join(Tail(parts), sep)

(***************************************************************************)
(* search_papers, lines 62-125: the normalisation of the parameters.       *)
(***************************************************************************)
\* SortCriterion without the .lower() of line 71
SortCriterionCaseSensitive(sort_by) ==
    LET k == Replace(sort_by, "_", "") IN
    CASE k = "relevance"       -> "Relevance"
      [] k = "submitted"       -> "SubmittedDate"
      [] k = "submitteddate"   -> "SubmittedDate"
      [] k = "updated"         -> "LastUpdatedDate"
      [] k = "lastupdated"     -> "LastUpdatedDate"
      [] k = "lastupdateddate" -> "LastUpdatedDate"
      [] OTHER                 -> "Relevance"

\* sort_mapping.get(sort_by.lower().replace("_", ""), Relevance)
SortCriterion(sort_by) ==
    LET k == Replace(Lower(sort_by), "_", "") IN
    CASE k = "relevance"       -> "Relevance"
      [] k = "submitted"       -> "SubmittedDate"
      [] k = "submitteddate"   -> "SubmittedDate"
      [] k = "updated"         -> "LastUpdatedDate"
      [] k = "lastupdated"     -> "LastUpdatedDate"
      [] k = "lastupdateddate" -> "LastUpdatedDate"
      [] OTHER                 -> "Relevance"

\* order_mapping.get(sort_order.lower(), Descending)
SortOrderEnum(sort_order) ==
    LET k == Lower(sort_order) IN
    CASE k = "desc"       -> "Descending"
      [] k = "descending" -> "Descending"
      [] k = "asc"        -> "Ascending"
      [] k = "ascending"  -> "Ascending"
      [] OTHER            -> "Descending"

\* class SearchField: the members, each with its name and its prefix
SearchFieldMembers ==
    { << "ALL", "all" >>, << "TITLE", "ti" >>, << "AUTHOR", "au" >>,
      << "ABSTRACT", "abs" >>, << "COMMENT", "co" >>,
      << "JOURNAL_REF", "jr" >>, << "CATEGORY", "cat" >>,
      << "REPORT_NUMBER", "rn" >> }

\* field_mapping.get(search_field.lower(), "all")
FieldPrefix(search_field) ==
    LET k == Lower(search_field) IN
    CASE k = "title"    -> "ti"
      [] k = "author"   -> "au"
      [] k = "abstract" -> "abs"
      [] k = "category" -> "cat"
      [] k = "comment"  -> "co"
      [] k = "journal"  -> "jr"
      [] k = "all"      -> "all"
      [] OTHER          -> "all"

\* the first element of search_query_parts
FieldTerm(query, search_field) ==
    IF FieldPrefix(search_field) # "all"
    THEN FieldPrefix(search_field) \o ":" \o query
    ELSE query

\* the author element of search_query_parts, when there is one
AuthorParts(author_search) ==
    IF Truthy(author_search)
    THEN << "au:" \o Lower(Replace(author_search[1], " ", "_")) >>
    ELSE << >>

\* DateParts without the branch of lines 120-122
DatePartsNoUpperOnly(date_from, date_to) ==
    IF Truthy(date_from) \/ Truthy(date_to)
    THEN IF Truthy(date_from) /\ Truthy(date_to)
         THEN << "submittedDate:[" \o date_from[1] \o "0000 TO " \o date_to[1] \o "2359]" >>
         ELSE IF Truthy(date_from)
         THEN << "submittedDate:[" \o date_from[1] \o "0000 TO *]" >>
         ELSE << >>
    ELSE << >>

\* the date element of search_query_parts, when there is one
DateParts(date_from, date_to) ==
    IF Truthy(date_from) \/ Truthy(date_to)
    THEN IF Truthy(date_from) /\ Truthy(date_to)
         THEN << "submittedDate:[" \o date_from[1] \o "0000 TO " \o date_to[1] \o "2359]" >>
         ELSE IF Truthy(date_from)
         THEN << "submittedDate:[" \o date_from[1] \o "0000 TO *]" >>
         ELSE << "submittedDate:[* TO " \o date_to[1] \o "2359]" >>
    ELSE << >>

\* SearchQueryParts with lines 112-122 put before lines 106-110: the date
\* element comes before the author element
SearchQueryPartsDateFirst(query, search_field, author_search, date_from, date_to) ==
    << FieldTerm(query, search_field) >>
      \o DateParts(date_from, date_to) \o AuthorParts(author_search)

SearchQueryParts(query, search_field, author_search, date_from, date_to) ==
    << FieldTerm(query, search_field) >>
      \o AuthorParts(author_search) \o DateParts(date_from, date_to)

FinalQuery(query, search_field, author_search, date_from, date_to) ==
    Join(SearchQueryParts(query, search_field, author_search, date_from, date_to),
         " AND ")

(***************************************************************************)
(* search_papers, lines 140-143: the topic directory of a search.          *)
(***************************************************************************)
SlugMax == 50

\* QuerySlug without the .replace("/", "_") of line 141
QuerySlugKeepsSlash(query, author_search) ==
    LET base == Take(Replace(Lower(query), " ", "_"), SlugMax) IN
    IF Truthy(author_search)
    THEN base \o "_by_" \o Replace(author_search[1], " ", "_")
    ELSE base

\* QuerySlug without query.lower()
QuerySlugKeepsCase(query, author_search) ==
    LET base == Take(Replace(Replace(query, " ", "_"), "/", "_"), SlugMax) IN
    IF Truthy(author_search)
    THEN base \o "_by_" \o Replace(author_search[1], " ", "_")
    ELSE base

QuerySlug(query, author_search) ==
    LET base == Take(Replace(Replace(Lower(query), " ", "_"), "/", "_"), SlugMax) IN
    IF Truthy(author_search)
    THEN base \o "_by_" \o Replace(author_search[1], " ", "_")
    ELSE base

(***************************************************************************)
(* The provider's papers (arxiv.Result) and the records stored for them.   *)
(***************************************************************************)
Digit(n) == SubSeq("0123456789", n + 1, n + 1)

Pad2(n) == Digit(n \div 10) \o Digit(n % 10)

Pad4(n) == Pad2(n \div 100) \o Pad2(n % 100)

\* str(d.date()) of a datetime d: "YYYY-MM-DD"
DateStr(d) == Pad4(d.y) \o "-" \o Pad2(d.m) \o "-" \o Pad2(d.d)

Date(y, m, d) == [y |-> y, m |-> m, d |-> d]

RECURSIVE Rep(_, _)
\* s * n
Rep(s, n) ==
    IF n = 0 THEN ""
    ELSE IF n % 2 = 0 THEN LET h == Rep(s, n \div 2) IN h \o h
    ELSE s \o Rep(s, n - 1)

\* One result of the provider; get_short_id() is short_id, updated is <<>>
\* (None) or <<datetime>>.
Result(short_id, title, authors, summary, published, updated, category) ==
    [short_id |-> short_id, title |-> title, authors |-> authors,
     summary |-> summary,
     pdf_url |-> "http://arxiv.org/pdf/" \o short_id,
     published |-> published, updated |-> updated,
     categories |-> << category >>, primary_category |-> category,
     entry_id |-> "http://arxiv.org/abs/" \o short_id]

PaperA1 ==
    Result("2401.00001v1", "Swarm agents", << "Ada", "Bob" >>, "short abstract",
           Date(2024, 1, 5), None, "cs.AI")

\* the same identifier with other field values
PaperA2 ==
    Result("2401.00001v1", "Swarm agents (revised)",
           << "Ada", "Bob", "Cyd", "Dan" >>, Rep("x", 320),
           Date(2024, 1, 5), Some(Date(2024, 2, 9)), "cs.MA")

PaperB ==
    Result("2305.00002v2", "Transformers", << "Eve" >>, Rep("y", 300),
           Date(2023, 5, 17), Some(Date(2023, 5, 17)), "cs.LG")

Papers == { PaperA1, PaperA2, PaperB }

PaperIds == { p.short_id : p \in Papers }

\* lines 167-184: the paper_info dict built for a new paper
PaperInfo(paper, par) ==
    [title |-> paper.title,
     authors |-> paper.authors,
     summary |-> paper.summary,
     pdf_url |-> paper.pdf_url,
     published |-> DateStr(paper.published),
     updated |-> IF paper.updated # None THEN DateStr(paper.updated[1])
                 ELSE DateStr(paper.published),
     categories |-> paper.categories,
     primary_category |-> paper.primary_category,
     entry_id |-> paper.entry_id,
     search_params |->
        [query |-> par.query,
         sort_by |-> par.sort_by,
         search_field |-> par.search_field,
         author_search |-> par.author_search,
         date_range |->
            IF Truthy(par.date_from) \/ Truthy(par.date_to)
            THEN Some(Fmt(par.date_from) \o " to " \o Fmt(par.date_to))
            ELSE None]]

(***************************************************************************)
(* The registry files.                                                     *)
(***************************************************************************)
\* papers_info = {}
EmptyInfo == [keys |-> << >>, recs |-> << >>]

AbsentFile == [kind |-> "absent", keys |-> << >>, recs |-> << >>]

\* the file damaged so that json.load raises JSONDecodeError
Corrupted(file) == [file EXCEPT !.kind = "corrupt"]

\* json.dump(papers_info, json_file): one JSON object, the keys in dict order
Dump(info) == [kind |-> "json", keys |-> info.keys, recs |-> info.recs]

\* json.load(json_file) succeeded: the dict of the document
Parsed(file) == [keys |-> file.keys, recs |-> file.recs]

\* LoadPapersInfo that starts every call from {}
LoadPapersInfoForgets(d, slug) == EmptyInfo

\* LoadPapersInfo that takes what records a damaged file still shows
LoadPapersInfoSalvages(d, slug) ==
    IF d[slug].kind # "absent" THEN Parsed(d[slug]) ELSE EmptyInfo

\* lines 151-155: FileNotFoundError and JSONDecodeError give {}
LoadPapersInfo(d, slug) ==
    IF d[slug].kind = "json" THEN Parsed(d[slug]) ELSE EmptyInfo

\* MakeDirs that puts an empty registry file into a directory it makes
MakeDirsTouchesFile(d, slug) ==
    IF slug \in DOMAIN d THEN d
    ELSE [s \in DOMAIN d \cup {slug} |->
             IF s = slug THEN Dump(EmptyInfo) ELSE d[s]]

\* line 146: os.makedirs(path, exist_ok=True)
MakeDirs(d, slug) ==
    IF slug \in DOMAIN d THEN d
    ELSE [s \in DOMAIN d \cup {slug} |-> IF s = slug THEN AbsentFile ELSE d[s]]

\* WriteFile that leaves the file as it was
WriteFileSkips(d, slug, info) == d

\* WriteFile that rewrites the file of every directory that has one
WriteFileOfAll(d, slug, info) ==
    [s \in DOMAIN d |->
        IF s = slug \/ d[s].kind # "absent" THEN Dump(info) ELSE d[s]]

\* lines 188-189: the file is rewritten whole
WriteFile(d, slug, info) == [d EXCEPT ![slug] = Dump(info)]

\* paper_id in papers_info
HasKey(info, id) == id \in DOMAIN info.recs

\* papers_info[paper_id] = paper_info, for a paper_id that is not yet a key
Insert(info, id, rec) ==
    [keys |-> Append(info.keys, id),
     recs |-> [k \in DOMAIN info.recs \cup {id} |->
                  IF k = id THEN rec ELSE info.recs[k]]]

\* MergeStep without the test of line 165 around the assignment: the record
\* of a known identifier is overwritten
MergeStepOverwrites(st, paper, par) ==
    [paper_ids |-> Append(st.paper_ids, paper.short_id),
     new_papers_count |->
        IF HasKey(st.papers_info, paper.short_id) THEN st.new_papers_count
        ELSE st.new_papers_count + 1,
     papers_info |->
        IF HasKey(st.papers_info, paper.short_id)
        THEN [st.papers_info EXCEPT
                 !.recs[paper.short_id] = PaperInfo(paper, par)]
        ELSE Insert(st.papers_info, paper.short_id, PaperInfo(paper, par))]

\* MergeStep with the counter incremented outside the test of line 165
MergeStepCountsAll(st, paper, par) ==
    [paper_ids |-> Append(st.paper_ids, paper.short_id),
     new_papers_count |-> st.new_papers_count + 1,
     papers_info |->
        IF HasKey(st.papers_info, paper.short_id) THEN st.papers_info
        ELSE Insert(st.papers_info, paper.short_id, PaperInfo(paper, par))]

\* lines 162-185: one iteration of the loop over the provider's results
MergeStep(st, paper, par) ==
    [paper_ids |-> Append(st.paper_ids, paper.short_id),
     new_papers_count |->
        IF HasKey(st.papers_info, paper.short_id) THEN st.new_papers_count
        ELSE st.new_papers_count + 1,
     papers_info |->
        IF HasKey(st.papers_info, paper.short_id) THEN st.papers_info
        ELSE Insert(st.papers_info, paper.short_id, PaperInfo(paper, par))]

RECURSIVE MergeLoop(_, _, _)
\* lines 157-185: the loop over the provider's results
MergeLoop(st, results, par) ==
    IF results = << >> THEN st
    ELSE MergeLoop(MergeStep(st, Head(results), par), Tail(results), par)

\* MergeStart that begins the merge with {} whatever was loaded
MergeStartFromEmpty(info) ==
    [paper_ids |-> << >>, new_papers_count |-> 0, papers_info |-> EmptyInfo]

MergeStart(info) ==
    [paper_ids |-> << >>, new_papers_count |-> 0, papers_info |-> info]

PaperDir == "papers"

\* os.path.join(PAPER_DIR, query_slug, "papers_info.json")
FilePath(slug) == PaperDir \o "/" \o slug \o "/papers_info.json"

\* Summary that echoes what the parameters were normalised to
SummaryEchoesNormalised(par, st, final_query, file_path) ==
    [paper_ids |-> st.paper_ids,
     total_found |-> Len(st.paper_ids),
     new_papers |-> st.new_papers_count,
     search_query |-> final_query,
     search_parameters |->
        [original_query |-> par.query, sort_by |-> SortCriterion(par.sort_by),
         sort_order |-> SortOrderEnum(par.sort_order),
         search_field |-> FieldPrefix(par.search_field),
         author_search |-> par.author_search, date_from |-> par.date_from,
         date_to |-> par.date_to, max_results |-> par.max_results],
     storage_path |-> file_path]

\* lines 192-209: the dict search_papers returns, from its locals
Summary(par, st, final_query, file_path) ==
    [paper_ids |-> st.paper_ids,
     total_found |-> Len(st.paper_ids),
     new_papers |-> st.new_papers_count,
     search_query |-> final_query,
     search_parameters |->
        [original_query |-> par.query, sort_by |-> par.sort_by,
         sort_order |-> par.sort_order, search_field |-> par.search_field,
         author_search |-> par.author_search, date_from |-> par.date_from,
         date_to |-> par.date_to, max_results |-> par.max_results],
     storage_path |-> file_path]

\* lines 62-148: the locals final_query, query_slug and file_path of a call
Locals(par) ==
    LET slug == QuerySlug(par.query, par.author_search) IN
    [final_query |-> FinalQuery(par.query, par.search_field, par.author_search,
                                par.date_from, par.date_to),
     query_slug |-> slug,
     file_path |-> FilePath(slug)]

(***************************************************************************)
(* extract_info, lines 274-292.                                            *)
(***************************************************************************)
\* the str a call returns: a JSON text of one record, or a message
JsonDumps(rec) == [kind |-> "json", rec |-> rec, text |-> ""]

Message(text) == [kind |-> "text", rec |-> << >>, text |-> text]

RECURSIVE ScanDirsStopsAtCorrupt(_, _, _)
\* ScanDirs with the scan ended by the first file that does not parse
ScanDirsStopsAtCorrupt(d, listing, paper_id) ==
    IF listing = << >>
    THEN Message("No saved information found for paper " \o paper_id \o ".")
    ELSE LET file == d[Head(listing)] IN
         IF file.kind = "absent"
         THEN ScanDirsStopsAtCorrupt(d, Tail(listing), paper_id)
         ELSE IF file.kind = "corrupt"
         THEN Message("No saved information found for paper " \o paper_id \o ".")
         ELSE IF HasKey(Parsed(file), paper_id)
         THEN JsonDumps(Parsed(file).recs[paper_id])
         ELSE ScanDirsStopsAtCorrupt(d, Tail(listing), paper_id)

RECURSIVE ScanDirs(_, _, _)
\* lines 278-292: the loop over os.listdir(PAPER_DIR), in the order listing
ScanDirs(d, listing, paper_id) ==
    IF listing = << >>
    THEN Message("No saved information found for paper " \o paper_id \o ".")
    ELSE LET file == d[Head(listing)] IN
         IF file.kind = "absent"                     \* os.path.isfile fails
         THEN ScanDirs(d, Tail(listing), paper_id)
         ELSE IF file.kind = "corrupt"               \* except ...: continue
         THEN ScanDirs(d, Tail(listing), paper_id)
         ELSE IF HasKey(Parsed(file), paper_id)
         THEN JsonDumps(Parsed(file).recs[paper_id])
         ELSE ScanDirs(d, Tail(listing), paper_id)

\* ExtractInfo without the test of line 274: a missing PAPER_DIR is scanned
\* like an empty one
ExtractInfoNoRootTest(root, d, listing, paper_id) ==
    ScanDirs(d, listing, paper_id)

ExtractInfo(root, d, listing, paper_id) ==
    IF ~root
    THEN Message("Papers directory " \o PaperDir
                   \o " does not exist. No saved papers found.")
    ELSE ScanDirs(d, listing, paper_id)

\* the orders in which os.listdir may list the directories S
Listings(S) ==
    { l \in [1..Cardinality(S) -> S] : \A i, j \in DOMAIN l : i # j => l[i] # l[j] }

(***************************************************************************)
(* get_available_folders and get_topic_papers: the text they return, as    *)
(* its sequence of lines.                                                  *)
(***************************************************************************)
\* the code mark of markdown around a name: a backquote in the source, which
\* a TLA+ string cannot hold
Tick == "'"

\* c.upper() of each small letter c
UpperTable ==
    [c \in { l[2] : l \in LetterPairs } |->
        (CHOOSE l \in LetterPairs : l[2] = c)[1]]

\* c.upper() for one character
UpperChar(c) == IF c \in DOMAIN UpperTable THEN UpperTable[c] ELSE c

\* c is a letter
Cased(c) == c \in DOMAIN LowerTable \/ c \in DOMAIN UpperTable

RECURSIVE TitleFrom(_, _)
\* s.title(), where in_word tells whether a letter comes just before s
TitleFrom(s, in_word) ==
    IF s = "" THEN ""
    ELSE (IF in_word THEN LowerChar(Head(s)) ELSE UpperChar(Head(s)))
           \o TitleFrom(Tail(s), Cased(Head(s)))

\* s.title()
Title(s) == TitleFrom(s, FALSE)

RECURSIVE IntStr(_)
\* str(n) for n >= 0
IntStr(n) == IF n < 10 THEN Digit(n) ELSE IntStr(n \div 10) \o Digit(n % 10)

\* the code point order of the characters of a date
Ord(c) == CHOOSE i \in 1..11 : SubSeq("-0123456789", i, i) = c

RECURSIVE StrLess(_, _)
\* a < b for two str
StrLess(a, b) ==
    IF b = "" THEN FALSE
    ELSE IF a = "" THEN TRUE
    ELSE IF Head(a) = Head(b) THEN StrLess(Tail(a), Tail(b))
    ELSE Ord(Head(a)) < Ord(Head(b))

RECURSIVE SortedForward(_)
\* sorted(S) for a set S of different str: SortedReverse without reverse=True
SortedForward(S) ==
    IF S = {} THEN << >>
    ELSE LET m == CHOOSE x \in S : \A y \in S \ {x} : StrLess(x, y)
         IN  << m >> \o SortedForward(S \ {m})

RECURSIVE SortedReverse(_)
\* sorted(S, reverse=True) for a set S of different str
SortedReverse(S) ==
    IF S = {} THEN << >>
    ELSE LET m == CHOOSE x \in S : \A y \in S \ {x} : StrLess(y, x)
         IN  << m >> \o SortedReverse(S \ {m})

\* os.path.exists(papers_file)
FileExists(d, slug) == slug \in DOMAIN d /\ d[slug].kind # "absent"

RECURSIVE FoldersListsAll(_, _)
\* Folders without the test of line 308: a directory without a file is
\* listed with no paper
FoldersListsAll(d, listing) ==
    IF listing = << >> THEN << >>
    ELSE LET topic_dir == Head(listing)
             file      == d[topic_dir]
         IN  (IF file.kind = "json"
              THEN << << topic_dir, Len(Parsed(file).keys) >> >>
              ELSE << << topic_dir, 0 >> >>)
               \o FoldersListsAll(d, Tail(listing))

RECURSIVE Folders(_, _)
\* lines 304-317: the (topic_dir, paper_count) pairs in the order of listing
Folders(d, listing) ==
    IF listing = << >> THEN << >>
    ELSE LET topic_dir == Head(listing)
             file      == d[topic_dir]
         IN  (IF file.kind = "absent" THEN << >>
              ELSE IF file.kind = "json"
              THEN << << topic_dir, Len(Parsed(file).keys) >> >>
              ELSE << << topic_dir, 0 >> >>)
               \o Folders(d, Tail(listing))

\* line 325: folder.replace("_", " ").title()
ReadableName(folder) == Title(Replace(folder, "_", " "))

\* line 326: one row of the table
FolderRow(readable_name, folder, count) ==
    "| " \o readable_name \o " | " \o IntStr(count)
      \o " papers | " \o Tick \o "@" \o folder \o Tick \o " |"

\* GetAvailableFolders without the test of line 321: the table is printed
\* also when folders is empty
GetAvailableFoldersAlwaysTable(root, d, listing, readable) ==
    LET folders == IF root THEN Folders(d, listing) ELSE << >> IN
    << "# Available Research Topics", "",
       "**Storage Location**: " \o Tick \o PaperDir \o Tick, "",
       "| Topic | Paper Count | Access |",
       "|-------|-------------|--------|" >>
      \o [i \in 1..Len(folders) |->
            FolderRow(readable[folders[i][1]], folders[i][1], folders[i][2])]
      \o << "", "**Total Topics**: " \o IntStr(Len(folders)), "",
            "*Use @topic_name to access papers in that topic.*" >>

\* get_available_folders(), the directories listed in the order of listing;
\* readable[folder] is ReadableName(folder)
GetAvailableFolders(root, d, listing, readable) ==
    LET folders == IF root THEN Folders(d, listing) ELSE << >> IN
    << "# Available Research Topics", "" >>
      \o (IF folders # << >>
          THEN << "**Storage Location**: " \o Tick \o PaperDir \o Tick, "",
                  "| Topic | Paper Count | Access |",
                  "|-------|-------------|--------|" >>
                 \o [i \in 1..Len(folders) |->
                        FolderRow(readable[folders[i][1]], folders[i][1],
                                  folders[i][2])]
                 \o << "", "**Total Topics**: " \o IntStr(Len(folders)), "",
                       "*Use @topic_name to access papers in that topic.*" >>
          ELSE << "No research topics found in " \o Tick \o PaperDir \o Tick \o ".",
                  "Use the " \o Tick \o "search_papers" \o Tick \o " tool to start collecting papers." >>)

\* paper_info['published'][:4]
Year(paper_info) == Take(paper_info.published, 4)

\* lines 355-360: the keys of papers_by_year
Years(papers_data) ==
    { Year(papers_data.recs[k]) : k \in DOMAIN papers_data.recs }

\* lines 355-360: papers_by_year[year], in the order of the file
PapersOfYear(papers_data, year) ==
    SelectSeq(papers_data.keys, LAMBDA k : Year(papers_data.recs[k]) = year)

\* ShownSummary that cuts a summary of 300 characters too
ShownSummaryCutsAt300(summary) ==
    IF Len(summary) >= 300 THEN Take(summary, 300) \o "..." ELSE summary

\* lines 386-388
ShownSummary(summary) ==
    IF Len(summary) > 300 THEN Take(summary, 300) \o "..." ELSE summary

\* lines 367-391: the lines of one paper
PaperLines(paper_id, paper_info) ==
    << "### " \o paper_info.title,
       "- **Paper ID**: " \o Tick \o paper_id \o Tick,
       "- **Authors**: "
          \o Join(SubSeq(paper_info.authors, 1,
                         Min(3, Len(paper_info.authors))), ", ")
          \o (IF Len(paper_info.authors) > 3
              THEN " *et al.* (" \o IntStr(Len(paper_info.authors)) \o " total)"
              ELSE ""),
       "- **Published**: " \o paper_info.published
          \o (IF paper_info.updated # paper_info.published
              THEN " (Updated: " \o paper_info.updated \o ")"
              ELSE ""),
       "- **Category**: " \o paper_info.primary_category,
       "- **PDF**: [Download PDF](" \o paper_info.pdf_url \o ")",
       "- **arXiv**: [View on arXiv](" \o paper_info.entry_id \o ")",
       "",
       "**Abstract**: " \o ShownSummary(paper_info.summary),
       "",
       "---",
       "" >>

RECURSIVE GroupLines(_, _)
\* lines 366-391: the lines of the papers of one year
GroupLines(papers_data, ids) ==
    IF ids = << >> THEN << >>
    ELSE PaperLines(Head(ids), papers_data.recs[Head(ids)])
           \o GroupLines(papers_data, Tail(ids))

RECURSIVE YearLines(_, _)
\* lines 363-391: the loop over the years
YearLines(papers_data, years) ==
    IF years = << >> THEN << >>
    ELSE LET ids == PapersOfYear(papers_data, Head(years))
         IN  << "## " \o Head(years) \o " (" \o IntStr(Len(ids)) \o " papers)",
                "" >>
               \o GroupLines(papers_data, ids)
               \o YearLines(papers_data, Tail(years))

\* line 344: topic.lower().replace(" ", "_")
TopicDir(topic) == Replace(Lower(topic), " ", "_")

\* line 350: topic.replace('_', ' ').title()
TopicHead(topic) == Title(Replace(topic, "_", " "))

\* get_topic_papers(topic); topic_dir is TopicDir(topic) and head is
\* TopicHead(topic)
GetTopicPapers(d, topic, topic_dir, head) ==
    LET papers_file == FilePath(topic_dir)
    IN  IF ~FileExists(d, topic_dir)
        THEN << "# No papers found for topic: " \o topic, "",
                "Try searching for papers on this topic first using the "
                  \o Tick \o "search_papers" \o Tick \o " tool." >>
        ELSE IF d[topic_dir].kind = "corrupt"
        THEN << "# Error reading papers data for " \o topic, "",
                "The papers data file is corrupted." >>
        ELSE LET papers_data == Parsed(d[topic_dir])
             IN  << "# Papers on " \o head, "",
                    "**Total papers**: " \o IntStr(Len(papers_data.keys)),
                    "**Storage location**: " \o Tick \o papers_file \o Tick, "" >>
                   \o YearLines(papers_data,
                                SortedReverse(Years(papers_data)))

(***************************************************************************)
(* The callers, their inputs, and what a call leaves behind.               *)
(***************************************************************************)
Callers == {1, 2}

\* 52 characters, longer than a directory name may get
LongQuery == Rep("Ab /", 13)

\* 50 characters, as long as a directory name may get
EdgeQuery == Rep("Zz/ y", 10)

\* 53 characters that are not those of LongQuery and get its directory name
LongTwin == Rep("ab__", 12) \o "ab_zz"

\* the parameters of a call of search_papers
Params(query, max_results, sort_by, sort_order, search_field, date_from, date_to, author_search) ==
    [query |-> query, max_results |-> max_results, sort_by |-> sort_by,
     sort_order |-> sort_order, search_field |-> search_field,
     date_from |-> date_from, date_to |-> date_to,
     author_search |-> author_search]

\* the searches the callers make: "ml" and "ML" share a directory, LongQuery
\* holds capitals, spaces and path separators, is cut, and is searched for
\* in two ways, "Yo Li" is an author filter
SeqParams ==
    { Params("ml", 1, "relevance", "descending", "all", None, None, None),
      Params("ML", 1, "banana", "up", "subject", Some("20240101"), None, None),
      Params(LongQuery, 2, "relevance", "descending", "all", None, None, None),
      Params(LongQuery, 1, "Submitted_Date", "ASC", "abstract", None,
             Some("20240601"), None),
      Params("ml", 1, "relevance", "descending", "all", None, None,
             Some("Yo Li")),
      Params(LongTwin, 1, "relevance", "descending", "all", None, None, None) }

\* the sequences of length n over S
SeqsOfLen(S, n) == [1..n -> S]

\* what the provider may yield for a request capped at max_results
ProviderResults(max_results) ==
    UNION { SeqsOfLen(Papers, n) : n \in 0..max_results }

LookupIds == PaperIds \cup { "9999.99999v1" }

\* the topics asked of get_topic_papers: the directory names the searches
\* make, a query with a capital and a space, and a topic never searched
Topics ==
    { QuerySlug(par.query, par.author_search) : par \in SeqParams }
      \cup { "ML", "ml by yo li", "quantum" }

\* the topic directory and the heading get_topic_papers derives from each
\* topic
TopicLocals ==
    [topic \in Topics |->
        [topic_dir |-> TopicDir(topic), head |-> TopicHead(topic)]]

\* the name get_available_folders shows for each directory the searches make
ReadableNames ==
    [folder \in { QuerySlug(par.query, par.author_search) : par \in SeqParams }
       |-> ReadableName(folder)]

NoRet ==
    [op |-> "none", status |-> "", par |-> << >>, results |-> << >>,
     slug |-> "", value |-> << >>]

NoLoc == [par |-> << >>, lc |-> << >>, papers_info |-> EmptyInfo]

NoNorm == [set |-> FALSE]

\* search_papers returned value
Returned(par, results, slug, value) ==
    [op |-> "search", status |-> "ok", par |-> par, results |-> results,
     slug |-> slug, value |-> value]

\* search_papers raised the provider's exception
Raised(par, slug) ==
    [op |-> "search", status |-> "raised", par |-> par, results |-> << >>,
     slug |-> slug, value |-> << >>]

Init ==
    /\ rootExists \in BOOLEAN
    /\ dirs = << >>
    /\ pc = [p \in Callers |-> "idle"]
    /\ loc = [p \in Callers |-> NoLoc]
    /\ ret = [p \in Callers |-> NoRet]
    /\ prev = NoRet
    /\ out = NoRet
    /\ ops = 0
    /\ norm = NoNorm

(***************************************************************************)
(* The calls run from call to return with nothing in between.  A call that *)
(* only reads (extract_info, get_available_folders, get_topic_papers) is   *)
(* followed to its return and no further: it leaves every file and every   *)
(* variable but out as they were, and the next write empties out, so the   *)
(* call after a read reaches what it reaches from the state the read       *)
(* started in.                                                             *)
(***************************************************************************)
\* no value of a read is held: the files are as the last write left them
AtWrite == out = NoRet

\* lines 62-209 with the provider yielding results
SearchOk(p) ==
    /\ pc[p] = "idle"
    /\ AtWrite
    /\ ops < MaxOps
    /\ \E par \in SeqParams :
         \E lc \in { Locals(par) } :
            \E results \in ProviderResults(par.max_results) :
               LET made == MakeDirs(dirs, lc.query_slug)
                   st   == MergeLoop(
                              MergeStart(LoadPapersInfo(made, lc.query_slug)),
                              results, par)
               IN  /\ dirs' = WriteFile(made, lc.query_slug, st.papers_info)
                   /\ ret' = [ret EXCEPT
                                ![p] = Returned(par, results, lc.query_slug,
                                                Summary(par, st, lc.final_query,
                                                        lc.file_path))]
    /\ rootExists' = TRUE
    /\ prev' = ret[p]
    /\ out' = NoRet
    /\ ops' = ops + 1
    /\ UNCHANGED <<pc, loc, norm>>

\* lines 62-161 with the provider raising while the results are iterated:
\* nothing catches it, line 188 is not reached
SearchRaises(p) ==
    /\ pc[p] = "idle"
    /\ AtWrite
    /\ ops < MaxOps
    /\ \E par \in SeqParams :
         \E lc \in { Locals(par) } :
            /\ dirs' = MakeDirs(dirs, lc.query_slug)
            /\ ret' = [ret EXCEPT ![p] = Raised(par, lc.query_slug)]
    /\ rootExists' = TRUE
    /\ prev' = ret[p]
    /\ out' = NoRet
    /\ ops' = ops + 1
    /\ UNCHANGED <<pc, loc, norm>>

\* extract_info(paper_id)
Lookup(p) ==
    /\ pc[p] = "idle"
    /\ AtWrite
    /\ \E paper_id \in LookupIds :
         \E listing \in Listings(DOMAIN dirs) :
            out' =
                      [op |-> "lookup", status |-> "ok",
                              par |-> [paper_id |-> paper_id],
                              results |-> << >>, slug |-> "",
                              value |-> ExtractInfo(rootExists, dirs,
                                                    listing, paper_id)]
    /\ UNCHANGED <<rootExists, dirs, pc, loc, ret, prev, ops, norm>>

\* get_available_folders()
ListTopics(p) ==
    /\ pc[p] = "idle"
    /\ AtWrite
    /\ \E listing \in Listings(DOMAIN dirs) :
         out' =
                   [op |-> "list", status |-> "ok", par |-> << >>,
                           results |-> << >>, slug |-> "",
                           value |-> GetAvailableFolders(rootExists, dirs,
                                                         listing,
                                                         ReadableNames)]
    /\ UNCHANGED <<rootExists, dirs, pc, loc, ret, prev, ops, norm>>

\* get_topic_papers that makes the directory of the topic it is asked for
RenderTopicMakesDir(p) ==
    /\ pc[p] = "idle"
    /\ AtWrite
    /\ \E topic \in Topics :
         /\ out' =
                   [op |-> "render", status |-> "ok",
                           par |-> [topic |-> topic],
                           results |-> << >>, slug |-> "",
                           value |-> GetTopicPapers(dirs, topic,
                                                    TopicLocals[topic].topic_dir,
                                                    TopicLocals[topic].head)]
         /\ rootExists' = TRUE
         /\ dirs' = MakeDirs(dirs, TopicLocals[topic].topic_dir)
    /\ UNCHANGED <<pc, loc, ret, prev, ops, norm>>

\* get_topic_papers(topic)
RenderTopic(p) ==
    /\ pc[p] = "idle"
    /\ AtWrite
    /\ \E topic \in Topics :
         out' =
                   [op |-> "render", status |-> "ok",
                           par |-> [topic |-> topic],
                           results |-> << >>, slug |-> "",
                           value |-> GetTopicPapers(dirs, topic,
                                                    TopicLocals[topic].topic_dir,
                                                    TopicLocals[topic].head)]
    /\ UNCHANGED <<rootExists, dirs, pc, loc, ret, prev, ops, norm>>

\* the file of a registry is damaged from outside the program
ExternalCorrupt ==
    /\ AtWrite
    /\ Cardinality({ s \in DOMAIN dirs : dirs[s].kind = "corrupt" }) < MaxCorrupt
    /\ \E s \in DOMAIN dirs :
         /\ dirs[s].kind = "json"
         /\ dirs' = [dirs EXCEPT ![s] = Corrupted(dirs[s])]
         /\ ret' = [ret EXCEPT
                      ![1] = [NoRet EXCEPT !.op = "external", !.slug = s,
                                           !.value = dirs[s].keys]]
    /\ prev' = ret[1]
    /\ out' = NoRet
    /\ UNCHANGED <<rootExists, pc, loc, ops, norm>>

Next ==
    \/ SearchOk(1)
    \/ SearchRaises(1)
    \/ Lookup(1)
    \/ ListTopics(1)
    \/ RenderTopic(1)
    \/ ExternalCorrupt

Spec == Init /\ [][Next]_vars

(***************************************************************************)
(* search_papers with its steps apart: two callers may both be between the *)
(* load of the registry (line 153) and its rewrite (line 188), where the   *)
(* provider is asked for its results (line 161).                           *)
(***************************************************************************)
\* lines 62-155: up to the load of papers_info
SearchBegin(p) ==
    /\ pc[p] = "idle"
    /\ ops < MaxOps
    /\ \E par \in SeqParams :
         \E lc \in { Locals(par) } :
            LET made == MakeDirs(dirs, lc.query_slug)
            IN  /\ dirs' = made
                /\ loc' = [loc EXCEPT
                             ![p] = [par |-> par, lc |-> lc,
                                     papers_info |->
                                        LoadPapersInfo(made, lc.query_slug)]]
    /\ rootExists' = TRUE
    /\ pc' = [pc EXCEPT ![p] = "iterating"]
    /\ ops' = ops + 1
    /\ UNCHANGED <<ret, prev, out, norm>>

\* SearchFinish merging into the file as it is when the call writes
SearchFinishReloads(p) ==
    /\ pc[p] = "iterating"
    /\ \E results \in ProviderResults(loc[p].par.max_results) :
         LET st == MergeLoop(
                      MergeStart(LoadPapersInfo(dirs, loc[p].lc.query_slug)),
                      results, loc[p].par)
         IN  /\ dirs' = WriteFile(dirs, loc[p].lc.query_slug, st.papers_info)
             /\ ret' = [ret EXCEPT
                          ![p] = Returned(loc[p].par, results,
                                          loc[p].lc.query_slug,
                                          Summary(loc[p].par, st,
                                                  loc[p].lc.final_query,
                                                  loc[p].lc.file_path))]
    /\ pc' = [pc EXCEPT ![p] = "idle"]
    /\ loc' = [loc EXCEPT ![p] = NoLoc]
    /\ UNCHANGED <<rootExists, prev, out, ops, norm>>

\* lines 157-209: the loop, the rewrite of the file, the return
SearchFinish(p) ==
    /\ pc[p] = "iterating"
    /\ \E results \in ProviderResults(loc[p].par.max_results) :
         LET st == MergeLoop(MergeStart(loc[p].papers_info), results, loc[p].par)
         IN  /\ dirs' = WriteFile(dirs, loc[p].lc.query_slug, st.papers_info)
             /\ ret' = [ret EXCEPT
                          ![p] = Returned(loc[p].par, results,
                                          loc[p].lc.query_slug,
                                          Summary(loc[p].par, st,
                                                  loc[p].lc.final_query,
                                                  loc[p].lc.file_path))]
    /\ pc' = [pc EXCEPT ![p] = "idle"]
    /\ loc' = [loc EXCEPT ![p] = NoLoc]
    /\ UNCHANGED <<rootExists, prev, out, ops, norm>>

\* line 161 raises: the call ends without reaching line 188
SearchAbort(p) ==
    /\ pc[p] = "iterating"
    /\ ret' = [ret EXCEPT ![p] = Raised(loc[p].par, loc[p].lc.query_slug)]
    /\ pc' = [pc EXCEPT ![p] = "idle"]
    /\ loc' = [loc EXCEPT ![p] = NoLoc]
    /\ UNCHANGED <<rootExists, dirs, prev, out, ops, norm>>

NextRace ==
    \E p \in Callers :
        \/ SearchBegin(p)
        \/ SearchFinish(p)
        \/ SearchAbort(p)

SpecRace == Init /\ [][NextRace]_vars

(***************************************************************************)
(* The normalisation alone, over a wider range of parameters.              *)
(***************************************************************************)
NormQueries ==
    { "transformers", "swarm agents artificial intelligence", "A/B Test",
      LongQuery, EdgeQuery }

NormSortBys ==
    { "relevance", "Relevance", "submitted", "Submitted_Date", "SUBMITTEDDATE",
      "updated", "last_updated", "lastUpdatedDate", "banana", "", "date" }

NormSortOrders ==
    { "desc", "DESC", "descending", "Descending", "asc", "Asc", "ascending",
      "ASCENDING", "up", "", "asc_ending" }

NormFields ==
    { "all", "ALL", "title", "Title", "author", "abstract", "ABSTRACT",
      "category", "comment", "journal", "Journal", "journal_ref",
      "report_number", "rn", "ti", "banana", "", "ti_tle" }

NormAuthors == { None, Some("Yann LeCun"), Some("hinton") }

NormDates == { None, Some("20240101"), Some("20240601") }

\* the sort parameters vary with the defaults elsewhere, then the parameters
\* of the query string and of the directory vary with the default sort
NormParams ==
    { Params("transformers", 5, sb, so, "all", None, None, None) :
         sb \in NormSortBys, so \in NormSortOrders }
    \cup
    { Params(q, 5, "relevance", "descending", f, t[1], t[2], a) :
         q \in NormQueries, f \in NormFields, a \in NormAuthors,
         t \in NormDates \X NormDates }

\* lines 62-148 for the parameters par
Normalised(par) ==
    [set |-> TRUE,
     par |-> par,
     sort_criterion |-> SortCriterion(par.sort_by),
     sort_order_enum |-> SortOrderEnum(par.sort_order),
     field_prefix |-> FieldPrefix(par.search_field),
     search_query_parts |->
        SearchQueryParts(par.query, par.search_field, par.author_search,
                         par.date_from, par.date_to),
     final_query |->
        FinalQuery(par.query, par.search_field, par.author_search,
                   par.date_from, par.date_to),
     query_slug |-> QuerySlug(par.query, par.author_search)]

Normalise ==
    /\ ~norm.set
    /\ \E par \in NormParams : norm' = Normalised(par)
    /\ UNCHANGED <<rootExists, dirs, pc, loc, ret, prev, out, ops>>

SpecNorm == Init /\ [][Normalise]_vars

(***************************************************************************)
(* get_topic_papers over the registries one search can leave: papers of    *)
(* three years, two of them of one year, summaries of 14, 50, 300, 301 and *)
(* 320 characters, in every order the provider may yield them.             *)
(***************************************************************************)
PaperC ==
    Result("2402.00003v1", "Routing", << "Fay", "Gus", "Hal" >>, Rep("z", 301),
           Date(2024, 2, 20), Some(Date(2024, 2, 20)), "cs.NI")

PaperD ==
    Result("1901.00004v3", "Old survey", << "Ian" >>, Rep("w", 50),
           Date(2019, 1, 30), Some(Date(2021, 6, 1)), "cs.DL")

ViewPapers == Papers \cup { PaperC, PaperD }

\* the search that filled the registry
ViewParams ==
    Params("ml", MaxViewLen, "relevance", "descending", "all", None, None, None)

\* the registries search_papers leaves in a new topic directory
ViewRegistries ==
    { MergeLoop(MergeStart(EmptyInfo), results, ViewParams).papers_info :
         results \in UNION { SeqsOfLen(ViewPapers, n) : n \in 0..MaxViewLen } }

InitView ==
    /\ rootExists = TRUE
    /\ \E info \in ViewRegistries :
         dirs = WriteFile(MakeDirs(<< >>, QuerySlug("ml", None)),
                          QuerySlug("ml", None), info)
    /\ pc = [p \in Callers |-> "idle"]
    /\ loc = [p \in Callers |-> NoLoc]
    /\ ret = [p \in Callers |-> NoRet]
    /\ prev = NoRet
    /\ out = NoRet
    /\ ops = 0
    /\ norm = NoNorm

SpecView == InitView /\ [][RenderTopic(1)]_vars

(***************************************************************************)
(* Properties of the sequential calls (Spec).                              *)
(***************************************************************************)
\* the identifiers of a provider result sequence
Ids(results) == { results[i].short_id : i \in DOMAIN results }

\* the identifiers the registry of slug holds for a call that loads it from d
StoredIds(d, slug) ==
    IF slug \in DOMAIN d /\ d[slug].kind = "json" THEN DOMAIN d[slug].recs ELSE {}

IsSearch(r) == r.op = "search"

IsSearchOk(r) == r.op = "search" /\ r.status = "ok"

\* this step is a call of search_papers by the sequential caller
SearchStep == ops' = ops + 1

\* C1: first-write-wins.  A search never changes a record that is stored:
\* whatever the provider returns for a stored identifier, and whatever the
\* parameters of the search, the record under that identifier is after the
\* search what it was before it.
FirstWriteWins ==
    [][SearchStep =>
         \A s \in DOMAIN dirs :
            \A k \in StoredIds(dirs, s) :
               /\ k \in StoredIds(dirs', s)
               /\ dirs'[s].recs[k] = dirs[s].recs[k]]_vars

\* a search found a stored identifier again with other field values and
\* other search parameters than the stored record has
FirstWriteWinsWitness ==
    /\ IsSearchOk(prev) /\ IsSearchOk(ret[1])
    /\ prev.slug = ret[1].slug
    /\ \E i \in DOMAIN ret[1].results :
         LET paper == ret[1].results[i]
             rec   == dirs[ret[1].slug].recs[paper.short_id]
         IN  /\ paper.short_id \in Ids(prev.results)
             /\ rec.title # paper.title
             /\ rec.search_params.query # ret[1].par.query
             /\ rec.search_params.sort_by # ret[1].par.sort_by

\* C2: idempotent re-search.  When a search follows a search with the same
\* query and author filter and the provider returns the same set of results,
\* the second call reports no new paper and leaves the storage as it was.
IdempotentReSearch ==
    [][(/\ SearchStep
        /\ IsSearchOk(ret[1]) /\ IsSearchOk(ret'[1])
        /\ ret'[1].par.query = ret[1].par.query
        /\ ret'[1].par.author_search = ret[1].par.author_search
        /\ { ret'[1].results[i] : i \in DOMAIN ret'[1].results }
             = { ret[1].results[i] : i \in DOMAIN ret[1].results })
       => /\ ret'[1].value.new_papers = 0
          /\ dirs' = dirs]_vars

\* the same search ran twice in a row and the provider returned the same
\* papers, more than none, both times
IdempotentReSearchWitness ==
    /\ IsSearchOk(prev) /\ IsSearchOk(ret[1])
    /\ prev.par.query = ret[1].par.query
    /\ prev.par.author_search = ret[1].par.author_search
    /\ prev.results = ret[1].results
    /\ Len(ret[1].results) = 2
    /\ prev.value.new_papers > 0
    /\ ret[1].value.new_papers = 0

\* C3: the result of a merge.  A search returns the provider's identifiers
\* in the provider's order, repeats kept, their number as total_found, and as
\* new_papers the number of distinct incoming identifiers the registry did not
\* hold; afterwards the registry holds the identifiers it held united with
\* the incoming ones, one record under each.
MergeResult ==
    [][(SearchStep /\ IsSearchOk(ret'[1])) =>
         LET r      == ret'[1]
             before == StoredIds(dirs, r.slug)
             file   == dirs'[r.slug]
         IN  /\ r.value.paper_ids = [i \in DOMAIN r.results |-> r.results[i].short_id]
             /\ r.value.total_found = Len(r.results)
             /\ r.value.new_papers = Cardinality(Ids(r.results) \ before)
             /\ file.kind = "json"
             /\ DOMAIN file.recs = before \cup Ids(r.results)
             /\ { file.keys[i] : i \in DOMAIN file.keys } = DOMAIN file.recs
             /\ Len(file.keys) = Cardinality(DOMAIN file.recs)]_vars

\* a search into a registry that held a paper returned that paper's
\* identifier twice and one new identifier
MergeResultWitness ==
    /\ IsSearchOk(prev) /\ IsSearchOk(ret[1])
    /\ prev.slug = ret[1].slug
    /\ prev.value.new_papers = 1
    /\ ret[1].value.total_found = 2
    /\ ret[1].value.new_papers = 1
    /\ Cardinality(DOMAIN dirs[ret[1].slug].recs) = 2

\* C5: a failure of the provider is returned, never raised: no call of
\* search_papers ends by raising the provider's exception.
ProviderFailureIsReturned ==
    \A p \in Callers : IsSearch(ret[p]) => ret[p].status # "raised"

(***************************************************************************)
(* Properties of two interleaved calls (SpecRace).                         *)
(***************************************************************************)
\* caller p ends a call of search_papers in this step by returning
FinishStep(p) == pc[p] = "iterating" /\ pc'[p] = "idle" /\ IsSearchOk(ret'[p])

\* every identifier the call behind r returned was counted as new
AllNew(r) == r.value.new_papers = Cardinality(Ids(r.results))

\* C4: last writer wins.  The file a call writes is the mapping the call
\* loaded, with its own new papers added, and the number of new papers it
\* reports counts against the mapping it loaded: what another call wrote to
\* the file between the load and the write is replaced.
LastWriterWins ==
    [][\A p \in Callers :
          FinishStep(p) =>
             LET loaded == loc[p].papers_info
                 r      == ret'[p]
                 file   == dirs'[r.slug]
             IN  /\ DOMAIN file.recs = DOMAIN loaded.recs \cup Ids(r.results)
                 /\ \A k \in DOMAIN loaded.recs : file.recs[k] = loaded.recs[k]
                 /\ r.value.new_papers
                      = Cardinality(Ids(r.results) \ DOMAIN loaded.recs)]_vars

\* two calls for one topic both loaded the registry before either wrote it:
\* an identifier one of them reported as new is not in the registry, and
\* both counted one identifier as new
LostUpdateWitness ==
    /\ \A p \in Callers : pc[p] = "idle" /\ IsSearchOk(ret[p]) /\ AllNew(ret[p])
    /\ ret[1].slug = ret[2].slug
    /\ \E p \in Callers :
         \E k \in Ids(ret[p].results) : k \notin StoredIds(dirs, ret[p].slug)
    /\ Ids(ret[1].results) \cap Ids(ret[2].results) # {}

(***************************************************************************)
(* Properties of the normalisation (SpecNorm).                             *)
(***************************************************************************)
StartsWith(s, t) == Len(s) >= Len(t) /\ SubSeq(s, 1, Len(t)) = t

EndsWith(s, t) == Len(s) >= Len(t) /\ SubSeq(s, Len(s) - Len(t) + 1, Len(s)) = t

Contains(s, t) ==
    \E i \in 1..(Len(s) + 1) :
       i + Len(t) - 1 <= Len(s) /\ SubSeq(s, i, i + Len(t) - 1) = t

\* the searchField word of a member of SearchField: the key field_mapping has
\* for its prefix ("journal" for JOURNAL_REF), else the member's own name
ScopeWord(m) == IF m[1] = "JOURNAL_REF" THEN "journal" ELSE Lower(m[1])

\* C6: the field scope and its prefix.  Every scope of the enumeration is at
\* hand: a searchField that is the word of a member of SearchField, in any
\* letter case, gives the field term the member's prefix (ti, au, abs, co,
\* jr, cat, rn), and the query text alone for ALL.
FieldScopePrefix ==
    norm.set =>
       \A m \in SearchFieldMembers :
          Lower(norm.par.search_field) = ScopeWord(m) =>
             norm.search_query_parts[1]
               = IF m[2] = "all" THEN norm.par.query
                 ELSE m[2] \o ":" \o norm.par.query

\* what the three lenient parameters are given as, and what they become
SortByExamples ==
    { << "relevance", "Relevance" >>, << "Relevance", "Relevance" >>,
      << "submitted", "SubmittedDate" >>, << "Submitted_Date", "SubmittedDate" >>,
      << "SUBMITTEDDATE", "SubmittedDate" >>, << "updated", "LastUpdatedDate" >>,
      << "last_updated", "LastUpdatedDate" >>,
      << "lastUpdatedDate", "LastUpdatedDate" >>, << "banana", "Relevance" >>,
      << "", "Relevance" >>, << "date", "Relevance" >> }

SortOrderExamples ==
    { << "desc", "Descending" >>, << "DESC", "Descending" >>,
      << "descending", "Descending" >>, << "Descending", "Descending" >>,
      << "asc", "Ascending" >>, << "Asc", "Ascending" >>,
      << "ascending", "Ascending" >>, << "ASCENDING", "Ascending" >>,
      << "up", "Descending" >>, << "", "Descending" >>,
      << "asc_ending", "Descending" >> }

SearchFieldExamples ==
    { << "all", "all" >>, << "ALL", "all" >>, << "title", "ti" >>,
      << "Title", "ti" >>, << "author", "au" >>, << "abstract", "abs" >>,
      << "ABSTRACT", "abs" >>, << "category", "cat" >>, << "comment", "co" >>,
      << "journal", "jr" >>, << "Journal", "jr" >>, << "banana", "all" >>,
      << "", "all" >>, << "ti_tle", "all" >>, << "ti", "all" >> }

\* C7: the lenient parameters.  Every sortBy, sortOrder and searchField is
\* normalised to a value of its enumeration; one that is not recognised
\* (sortBy after lowercasing and removing underscores, the others after
\* lowercasing) becomes Relevance, Descending and All; letter case does not
\* matter.
LenientEnums ==
    norm.set =>
       /\ norm.sort_criterion \in { "Relevance", "SubmittedDate", "LastUpdatedDate" }
       /\ norm.sort_order_enum \in { "Ascending", "Descending" }
       /\ norm.field_prefix \in { "all", "ti", "au", "abs", "cat", "co", "jr" }
       /\ Replace(Lower(norm.par.sort_by), "_", "")
            \notin { "relevance", "submitted", "submitteddate", "updated",
                     "lastupdated", "lastupdateddate" }
          => norm.sort_criterion = "Relevance"
       /\ Lower(norm.par.sort_order) \notin { "desc", "descending", "asc", "ascending" }
          => norm.sort_order_enum = "Descending"
       /\ Lower(norm.par.search_field)
            \notin { "title", "author", "abstract", "category", "comment",
                     "journal", "all" }
          => norm.field_prefix = "all"
       /\ \A e \in SortByExamples :
             norm.par.sort_by = e[1] => norm.sort_criterion = e[2]
       /\ \A e \in SortOrderExamples :
             norm.par.sort_order = e[1] => norm.sort_order_enum = e[2]
       /\ \A e \in SearchFieldExamples :
             norm.par.search_field = e[1] => norm.field_prefix = e[2]

\* sortBy "banana" and sortOrder "up" were normalised
LenientEnumsWitness ==
    /\ norm.set
    /\ norm.par.sort_by = "banana" /\ norm.sort_criterion = "Relevance"
    /\ norm.par.sort_order = "up" /\ norm.sort_order_enum = "Descending"

IsDateClause(part) == StartsWith(part, "submittedDate:")

\* the date clause the claim describes
DateClauseOf(date_from, date_to) ==
    "submittedDate:["
      \o (IF date_from # None THEN date_from[1] \o "0000" ELSE "*")
      \o " TO "
      \o (IF date_to # None THEN date_to[1] \o "2359" ELSE "*")
      \o "]"

\* C8: the date-range clause.  The provider query has a submittedDate clause
\* exactly when dateFrom or dateTo is given: from and to with 0000 and 2359
\* appended, and * for the bound that is not given.
DateRangeClause ==
    norm.set =>
       LET df == norm.par.date_from
           dt == norm.par.date_to
           q  == norm.final_query
       IN  /\ (df = None /\ dt = None) =>
                 /\ ~Contains(q, "submittedDate")
                 /\ SelectSeq(norm.search_query_parts, IsDateClause) = << >>
           /\ (df # None \/ dt # None) =>
                 /\ SelectSeq(norm.search_query_parts, IsDateClause)
                      = << DateClauseOf(df, dt) >>
                 /\ EndsWith(q, " AND " \o DateClauseOf(df, dt))
           /\ (df = Some("20240101") /\ dt = Some("20240601")) =>
                 EndsWith(q, "submittedDate:[202401010000 TO 202406012359]")
           /\ (df = Some("20240101") /\ dt = None) =>
                 EndsWith(q, "submittedDate:[202401010000 TO *]")
           /\ (df = None /\ dt = Some("20240601")) =>
                 EndsWith(q, "submittedDate:[* TO 202406012359]")

\* a query was built from a dateTo alone
DateRangeClauseWitness ==
    /\ norm.set
    /\ norm.par.date_from = None /\ norm.par.date_to = Some("20240601")
    /\ norm.final_query = "transformers AND submittedDate:[* TO 202406012359]"

(***************************************************************************)
(* Properties of the registry a call selects (Spec).                       *)
(***************************************************************************)
Char(s, i) == SubSeq(s, i, i)

\* slug is the directory name the claim describes for (query, author)
IsSlugOf(slug, query, author) ==
    LET n == Min(50, Len(query)) IN
    /\ Len(slug) >= n
    /\ \A i \in 1..n :
          Char(slug, i) = IF Char(query, i) \in { " ", "/" } THEN "_"
                          ELSE LowerChar(Char(query, i))
    /\ IF author = None THEN Len(slug) = n
       ELSE /\ Len(slug) = n + 4 + Len(author[1])
            /\ SubSeq(slug, n + 1, n + 4) = "_by_"
            /\ \A i \in 1..Len(author[1]) :
                  Char(slug, n + 4 + i) = IF Char(author[1], i) = " " THEN "_"
                                          ELSE Char(author[1], i)

\* C9: the registry of a search is a function of (query, author filter).  A
\* search creates or rewrites the one registry whose directory is the query
\* lowercased, spaces and "/" made underscores, cut to 50 characters, then
\* "_by_" and the author with spaces made underscores when an author is
\* given; the other parameters and the storage have no part in it.
RegistrySelection ==
    [][SearchStep =>
         LET r == ret'[1] IN
         /\ DOMAIN dirs \subseteq DOMAIN dirs'
         /\ \E s \in DOMAIN dirs' :
               /\ IsSlugOf(s, r.par.query, r.par.author_search)
               /\ \A t \in DOMAIN dirs' \ {s} : t \in DOMAIN dirs /\ dirs'[t] = dirs[t]
               /\ IsSearchOk(r) =>
                     /\ dirs'[s].kind = "json"
                     /\ Ids(r.results) \subseteq DOMAIN dirs'[s].recs
                     /\ r.value.storage_path
                          = "papers/" \o s \o "/papers_info.json"]_vars

\* two searches with one long query and other remaining parameters went to
\* one registry, whose name is cut to 50 characters
RegistrySelectionWitness ==
    /\ IsSearchOk(prev) /\ IsSearchOk(ret[1])
    /\ prev.par.query = LongQuery /\ ret[1].par.query = LongQuery
    /\ prev.par.author_search = ret[1].par.author_search
    /\ prev.par.sort_by # ret[1].par.sort_by
    /\ prev.par.search_field # ret[1].par.search_field
    /\ prev.par.date_to # ret[1].par.date_to
    /\ prev.par.max_results # ret[1].par.max_results
    /\ prev.value.storage_path = ret[1].value.storage_path
    /\ DOMAIN dirs = { ret[1].slug }
    /\ Len(ret[1].slug) = 50
    /\ ret[1].value.new_papers = 0 /\ ret[1].value.total_found > 0

(***************************************************************************)
(* Properties of extract_info (Spec).                                      *)
(***************************************************************************)
\* the readable registries that store paper_id
Holders(paper_id) ==
    { s \in DOMAIN dirs : dirs[s].kind = "json" /\ paper_id \in DOMAIN dirs[s].recs }

\* C10: the lookup across the topics.  extract_info returns a record exactly
\* when a registry that parses stores the identifier, and then a record one
\* of those registries stores under it; a registry that does not parse does
\* not end the scan; otherwise it returns a message that nothing is saved.
CrossTopicLookup ==
    out.op = "lookup" =>
       LET id == out.par.paper_id
           v  == out.value
       IN  /\ (v.kind = "json") <=> (Holders(id) # {})
           /\ v.kind = "json" => \E s \in Holders(id) : v.rec = dirs[s].recs[id]
           /\ v.kind # "json" =>
                 /\ v.kind = "text"
                 /\ v.text = IF rootExists
                             THEN "No saved information found for paper " \o id \o "."
                             ELSE "Papers directory papers does not exist. No saved papers found."

\* a lookup found a paper while another registry did not parse
CrossTopicLookupWitness ==
    /\ out.op = "lookup"
    /\ out.value.kind = "json"
    /\ \E s \in DOMAIN dirs : dirs[s].kind = "corrupt"
    /\ Cardinality(DOMAIN dirs) = 2

(***************************************************************************)
(* The text of get_topic_papers and get_available_folders.                 *)
(***************************************************************************)
IsRender(r) == r.op = "render"

IsList(r) == r.op = "list"

\* topic is written as a directory name: no capital, no space
IsSlug(topic) == Replace(Lower(topic), " ", "_") = topic

\* the lines are the message that sends the caller to search first
IsGuidance(lines) ==
    /\ Len(lines) = 3
    /\ StartsWith(lines[1], "# No papers found for topic: ")
    /\ StartsWith(lines[3], "Try searching for papers on this topic first")

\* the registry of slug has no file, a file that does not parse, or no record
NoUsableRecords(d, slug) ==
    \/ slug \notin DOMAIN d
    \/ d[slug].kind # "json"
    \/ d[slug].keys = << >>

\* C11: get_topic_papers returns the message that sends the caller to search
\* first whenever the registry of the requested slug has no file, has a file
\* that does not parse, or holds no record.
GuidanceWithoutRecords ==
    (IsRender(out) /\ IsSlug(out.par.topic)) =>
       (NoUsableRecords(dirs, out.par.topic) => IsGuidance(out.value))

\* the file of slug is missing or does not parse for a call that finds d
Unloadable(d, slug) == slug \notin DOMAIN d \/ d[slug].kind # "json"

\* the first of results that has the identifier id
FirstWith(results, id) ==
    results[CHOOSE i \in DOMAIN results :
               /\ results[i].short_id = id
               /\ \A j \in 1..(i - 1) : results[j].short_id # id]

\* C12: corruption is swallowed on the write path.  A search the provider
\* answers, into a registry whose file is missing or does not parse, returns
\* its summary, counts every distinct incoming identifier as new, and leaves
\* a file that parses and holds the incoming records and nothing else:
\* what the damaged file held is gone.
CorruptionSwallowed ==
    [][(SearchStep /\ IsSearchOk(ret'[1]) /\ Unloadable(dirs, ret'[1].slug)) =>
         LET r    == ret'[1]
             file == dirs'[r.slug]
         IN  /\ r.value.new_papers = Cardinality(Ids(r.results))
             /\ r.value.total_found = Len(r.results)
             /\ file.kind = "json"
             /\ DOMAIN file.recs = Ids(r.results)
             /\ { file.keys[i] : i \in DOMAIN file.keys } = Ids(r.results)
             /\ Len(file.keys) = Cardinality(Ids(r.results))
             /\ \A k \in Ids(r.results) :
                   file.recs[k] = PaperInfo(FirstWith(r.results, k), r.par)]_vars

\* a search went into a registry right after its file was damaged, and a
\* paper the file held before is not in the registry the search left
CorruptionSwallowedWitness ==
    /\ prev.op = "external" /\ IsSearchOk(ret[1])
    /\ prev.slug = ret[1].slug
    /\ ret[1].results # << >>
    /\ dirs[ret[1].slug].kind = "json"
    /\ \E i \in DOMAIN prev.value : prev.value[i] \notin DOMAIN dirs[ret[1].slug].recs

\* no file is one that json.load rejects
NoCorruptFile(d) == \A s \in DOMAIN d : d[s].kind # "corrupt"

\* C13: registries only grow.  While no file is damaged, no call of
\* search_papers, extract_info, get_available_folders or get_topic_papers
\* removes a topic directory, a registry file, or an identifier from a
\* registry: what each registry holds after the call includes what it held
\* before.
RegistriesOnlyGrow ==
    [][(NoCorruptFile(dirs) /\ NoCorruptFile(dirs')) =>
         /\ rootExists => rootExists'
         /\ DOMAIN dirs \subseteq DOMAIN dirs'
         /\ \A s \in DOMAIN dirs :
               /\ dirs[s].kind = "json" => dirs'[s].kind = "json"
               /\ StoredIds(dirs, s) \subseteq StoredIds(dirs', s)]_vars

\* a topic was searched twice, the second search added a paper to the one
\* the registry held, and the topic was rendered after it
RegistriesOnlyGrowWitness ==
    /\ IsRender(out) /\ out.par.topic = ret[1].slug
    /\ IsSearchOk(prev) /\ IsSearchOk(ret[1])
    /\ prev.slug = ret[1].slug
    /\ prev.value.new_papers = 1 /\ ret[1].value.new_papers = 1
    /\ Cardinality(StoredIds(dirs, ret[1].slug)) = 2

\* the rows of the table in the lines of get_available_folders
RowsOf(lines) ==
    SelectSeq(lines, LAMBDA l : StartsWith(l, "| ") /\ EndsWith(l, Tick \o " |"))

\* how the row of the registry slug ends when it holds n identifiers
RowEnd(slug, n) ==
    " | " \o IntStr(n) \o " papers | " \o Tick \o "@" \o slug \o Tick \o " |"

\* the topic directories that have a registry file
Filed(d) == { s \in DOMAIN d : d[s].kind # "absent" }

\* C14: the topic index matches the storage.  After searches, the text of
\* get_available_folders has one row for each topic directory that has a
\* registry file and no other row, the row of a registry shows the number
\* of identifiers it holds, and the total of topics shown is the number of
\* rows.
TopicIndexMatchesStorage ==
    (IsList(out) /\ NoCorruptFile(dirs)) =>
       LET rows == RowsOf(out.value) IN
       /\ Len(rows) = Cardinality(Filed(dirs))
       /\ \A s \in Filed(dirs) :
             Cardinality({ i \in DOMAIN rows :
                             EndsWith(rows[i],
                                      RowEnd(s, Cardinality(StoredIds(dirs, s)))) })
               = 1
       /\ Filed(dirs) # {} =>
             Cardinality({ i \in DOMAIN out.value :
                             out.value[i]
                               = "**Total Topics**: " \o IntStr(Len(rows)) })
               = 1

\* the index was listed over two registries, one with two papers and one
\* with one
TopicIndexMatchesStorageWitness ==
    /\ IsList(out) /\ NoCorruptFile(dirs)
    /\ Cardinality(Filed(dirs)) = 2
    /\ \E s, t \in Filed(dirs) :
          /\ Cardinality(StoredIds(dirs, s)) = 2
          /\ Cardinality(StoredIds(dirs, t)) = 1

\* C15: the empty index.  When the root directory is missing or no topic
\* directory has a registry file, the text of get_available_folders is the
\* empty-state message, which tells that no topic was found, and has no
\* table header, no row and no total of topics.
EmptyIndex ==
    (IsList(out) /\ (~rootExists \/ Filed(dirs) = {})) =>
       /\ out.value
            = << "# Available Research Topics", "",
                 "No research topics found in " \o Tick \o PaperDir \o Tick \o ".",
                 "Use the " \o Tick \o "search_papers" \o Tick
                    \o " tool to start collecting papers." >>
       /\ \A i \in DOMAIN out.value :
             /\ ~StartsWith(out.value[i], "|")
             /\ ~Contains(out.value[i], "Total Topics")

\* the index was listed while the only topic directory had no registry file
EmptyIndexWitness ==
    /\ IsList(out)
    /\ rootExists /\ DOMAIN dirs # {} /\ Filed(dirs) = {}

IsLookup(r) == r.op = "lookup"

\* C16: the lookup with a missing root.  While the root directory does not
\* exist, extract_info returns for every identifier one and the same text,
\* which tells that there is no saved paper, and raises nothing.
LookupWithoutRoot ==
    (IsLookup(out) /\ ~rootExists) =>
       /\ out.status = "ok"
       /\ out.value.kind = "text"
       /\ out.value.text
            = "Papers directory papers does not exist. No saved papers found."

\* a paper the provider knows was looked up before anything was searched
LookupWithoutRootWitness ==
    /\ IsLookup(out) /\ ~rootExists
    /\ out.par.paper_id \in PaperIds

(***************************************************************************)
(* Properties of the topic page (SpecView).                                *)
(***************************************************************************)
\* the registry get_topic_papers shows for the topic asked, when it shows one
ShownSlug == TopicLocals[out.par.topic].topic_dir

ShowsRegistry ==
    IsRender(out) /\ ShownSlug \in DOMAIN dirs /\ dirs[ShownSlug].kind = "json"

\* the lines that open a year group, and the lines that name a paper
HeadIdx(lines) == { i \in DOMAIN lines : StartsWith(lines[i], "## ") }

IdIdx(lines) == { i \in DOMAIN lines : StartsWith(lines[i], "- **Paper ID**: ") }

\* the year group the line i stands in
HeadOf(lines, i) ==
    LET before == { h \in HeadIdx(lines) : h < i } IN
    IF before = {} THEN 0
    ELSE CHOOSE h \in before : \A g \in before : g <= h

\* the year a group line names, as text and as a number
HeadYear(line) == SubSeq(line, 4, 7)

DigitVal(c) == CHOOSE n \in 0..9 : Digit(n) = c

YearNum(y) ==
    1000 * DigitVal(Char(y, 1)) + 100 * DigitVal(Char(y, 2))
      + 10 * DigitVal(Char(y, 3)) + DigitVal(Char(y, 4))

\* C17: the year groups of the topic page.  Every record of the registry is
\* named on exactly one line, in the group of the first four characters of
\* its published date; the groups stand in strictly descending order of
\* year; every group shows the number of records in it, and these numbers
\* add up to the total the page shows, the number of records.
YearGrouping ==
    ShowsRegistry =>
       LET lines == out.value
           recs  == dirs[ShownSlug].recs
           size  == [h \in HeadIdx(lines) |->
                       Cardinality({ i \in IdIdx(lines) : HeadOf(lines, i) = h })]
       IN  /\ Cardinality(IdIdx(lines)) = Cardinality(DOMAIN recs)
           /\ \A k \in DOMAIN recs :
                 \E i \in IdIdx(lines) :
                    /\ lines[i] = "- **Paper ID**: " \o Tick \o k \o Tick
                    /\ HeadOf(lines, i) # 0
                    /\ HeadYear(lines[HeadOf(lines, i)])
                         = SubSeq(recs[k].published, 1, 4)
           /\ \A g, h \in HeadIdx(lines) :
                 g < h => YearNum(HeadYear(lines[g])) > YearNum(HeadYear(lines[h]))
           /\ \A h \in HeadIdx(lines) :
                 /\ size[h] > 0
                 /\ lines[h] = "## " \o HeadYear(lines[h]) \o " ("
                                  \o IntStr(size[h]) \o " papers)"
           /\ lines[3] = "**Total papers**: " \o IntStr(Cardinality(IdIdx(lines)))

\* a page was rendered of three records, the first stored older than a later
\* one and two of them of one year
YearGroupingWitness ==
    /\ ShowsRegistry
    /\ LET keys == dirs[ShownSlug].keys
           recs == dirs[ShownSlug].recs
       IN  /\ Len(keys) = 3
           /\ YearNum(SubSeq(recs[keys[1]].published, 1, 4))
                < YearNum(SubSeq(recs[keys[2]].published, 1, 4))
           /\ \E i, j \in DOMAIN keys :
                 /\ i # j
                 /\ SubSeq(recs[keys[i]].published, 1, 4)
                      = SubSeq(recs[keys[j]].published, 1, 4)

\* the line of the abstract of the paper named on line i
AbstractOf(lines, i) ==
    LET after == { j \in DOMAIN lines :
                     j > i /\ StartsWith(lines[j], "**Abstract**: ") }
    IN  lines[CHOOSE j \in after : \A l \in after : j <= l]

\* C18: the summary on the topic page.  A stored summary of at most 300
\* characters is shown as it is; a longer one is shown as its first 300
\* characters followed by "...".
SummaryTruncation ==
    ShowsRegistry =>
       LET lines == out.value
           recs  == dirs[ShownSlug].recs
       IN  \A i \in IdIdx(lines) :
              \A k \in DOMAIN recs :
                 lines[i] = "- **Paper ID**: " \o Tick \o k \o Tick =>
                    LET summary == recs[k].summary IN
                    AbstractOf(lines, i)
                      = "**Abstract**: "
                          \o (IF Len(summary) <= 300 THEN summary
                              ELSE SubSeq(summary, 1, 300) \o "...")

\* a page was rendered with summaries of 300, of 301 and of fewer characters
SummaryTruncationWitness ==
    /\ ShowsRegistry
    /\ LET recs == dirs[ShownSlug].recs IN
       /\ \E k \in DOMAIN recs : Len(recs[k].summary) = 300
       /\ \E k \in DOMAIN recs : Len(recs[k].summary) = 301
       /\ \E k \in DOMAIN recs : Len(recs[k].summary) < 300

(***************************************************************************)
(* Properties of the provider query (SpecNorm), continued.                 *)
(***************************************************************************)
\* one to three clauses with " AND " between them
AndJoined(clauses) ==
    IF Len(clauses) = 1 THEN clauses[1]
    ELSE IF Len(clauses) = 2 THEN clauses[1] \o " AND " \o clauses[2]
    ELSE clauses[1] \o " AND " \o clauses[2] \o " AND " \o clauses[3]

\* the author clause the claim describes
AuthorClauseOf(author) == "au:" \o Replace(Lower(author), " ", "_")

\* C19: the structure of the provider query.  The query is its clauses with
\* " AND " between them: first the field term, which is always there, then
\* the author clause exactly when an author filter is given, which is au:
\* and the author in lower case with _ for each space, then the date clause
\* when there is one; so there are one to three clauses.
ProviderQueryStructure ==
    norm.set =>
       LET par     == norm.par
           parts   == norm.search_query_parts
           author  == IF par.author_search # None
                      THEN << AuthorClauseOf(par.author_search[1]) >>
                      ELSE << >>
           date    == IF par.date_from # None \/ par.date_to # None
                      THEN << DateClauseOf(par.date_from, par.date_to) >>
                      ELSE << >>
       IN  /\ Len(parts) \in 1..3
           /\ EndsWith(parts[1], par.query)
           /\ ~IsDateClause(parts[1])
           /\ parts = << parts[1] >> \o author \o date
           /\ norm.final_query = AndJoined(parts)

\* a query of three clauses was built, for an author written with capitals
\* and a space
ProviderQueryStructureWitness ==
    /\ norm.set
    /\ Len(norm.search_query_parts) = 3
    /\ norm.par.author_search = Some("Yann LeCun")
    /\ norm.search_query_parts[2] = "au:yann_lecun"
    /\ norm.par.search_field = "title"

(***************************************************************************)
(* Properties of the sequential calls (Spec), continued.                   *)
(***************************************************************************)
\* the words into which search_papers turns the date range of a call
DateRangeOf(date_from, date_to) ==
    IF date_from = None /\ date_to = None THEN None
    ELSE Some((IF date_from = None THEN "None" ELSE date_from[1]) \o " to "
                \o (IF date_to = None THEN "None" ELSE date_to[1]))

\* C20: the echo of the raw parameters.  The summary search_papers returns
\* carries the parameters as the caller gave them, and so do the search
\* parameters saved with every record the call stores, in the fields they
\* have; a sort_by, sort_order or search_field that was not recognised is
\* echoed as given, not as the default taken in its place.
EchoOfRawParameters ==
    [][(SearchStep /\ IsSearchOk(ret'[1])) =>
         LET r   == ret'[1]
             par == r.par
             sp  == r.value.search_parameters
         IN  /\ sp.original_query = par.query
             /\ sp.sort_by = par.sort_by
             /\ sp.sort_order = par.sort_order
             /\ sp.search_field = par.search_field
             /\ sp.author_search = par.author_search
             /\ sp.date_from = par.date_from
             /\ sp.date_to = par.date_to
             /\ sp.max_results = par.max_results
             /\ \A k \in StoredIds(dirs', r.slug) \ StoredIds(dirs, r.slug) :
                   LET saved == dirs'[r.slug].recs[k].search_params IN
                   /\ saved.query = par.query
                   /\ saved.sort_by = par.sort_by
                   /\ saved.search_field = par.search_field
                   /\ saved.author_search = par.author_search
                   /\ saved.date_range = DateRangeOf(par.date_from, par.date_to)]_vars

\* a search with a sort_by, a sort_order and a search_field that are not
\* recognised stored a record, and the summary and the record show them
EchoOfRawParametersWitness ==
    /\ IsSearchOk(ret[1])
    /\ ret[1].par.sort_by = "banana" /\ ret[1].par.sort_order = "up"
    /\ ret[1].par.search_field = "subject"
    /\ SortCriterion("banana") = "Relevance"
    /\ SortOrderEnum("up") = "Descending"
    /\ FieldPrefix("subject") = "all"
    /\ ret[1].value.new_papers = 1
    /\ ret[1].value.search_parameters.sort_by = "banana"
    /\ \E k \in StoredIds(dirs, ret[1].slug) :
          LET saved == dirs[ret[1].slug].recs[k].search_params IN
          /\ saved.query = "ML"
          /\ saved.sort_by = "banana"
          /\ saved.search_field = "subject"

\* C21: the round trip from a search to the reads.  Right after a search
\* that returned, the file of its registry parses and holds every identifier
\* the search returned; a lookup of such an identifier returns a stored
\* record, never a message, and the index shows the row of the registry with
\* the number of identifiers it holds, the returned ones among them.
SearchThenRead ==
    IsSearchOk(ret[1]) =>
       LET r == ret[1] IN
       /\ r.slug \in DOMAIN dirs /\ dirs[r.slug].kind = "json"
       /\ { r.value.paper_ids[i] : i \in DOMAIN r.value.paper_ids }
             \subseteq StoredIds(dirs, r.slug)
       /\ (IsLookup(out) /\ out.par.paper_id \in Ids(r.results)) =>
             /\ out.value.kind = "json"
             /\ \E s \in DOMAIN dirs :
                   /\ out.par.paper_id \in StoredIds(dirs, s)
                   /\ out.value.rec = dirs[s].recs[out.par.paper_id]
       /\ IsList(out) =>
             Cardinality({ i \in DOMAIN out.value :
                             EndsWith(out.value[i],
                                      RowEnd(r.slug,
                                             Cardinality(StoredIds(dirs, r.slug)))) })
               = 1

\* a paper a search returned and did not count as new was looked up right
\* after the search, and found
SearchThenReadWitness ==
    /\ IsSearchOk(ret[1]) /\ IsLookup(out)
    /\ out.par.paper_id \in Ids(ret[1].results)
    /\ ret[1].value.new_papers = 0
    /\ out.value.kind = "json"

\* the lines are a topic page
IsTopicPage(lines) ==
    /\ Len(lines) >= 5
    /\ StartsWith(lines[1], "# Papers on ")
    /\ StartsWith(lines[3], "**Total papers**: ")

\* C22: every registry a search made is rendered by its own slug.  Asked
\* for a topic that is the name of a directory whose registry file parses,
\* get_topic_papers returns the page of that registry, with a line for
\* every identifier it holds, and not the message that sends the caller to
\* search first.
RenderableByOwnSlug ==
    (IsRender(out) /\ out.par.topic \in DOMAIN dirs
       /\ dirs[out.par.topic].kind = "json") =>
       /\ ~IsGuidance(out.value)
       /\ IsTopicPage(out.value)
       /\ \A k \in StoredIds(dirs, out.par.topic) :
             \E i \in DOMAIN out.value :
                out.value[i] = "- **Paper ID**: " \o Tick \o k \o Tick

\* the rows get_available_folders can show of the files d, whatever the
\* order of the directories
ShownRows(root, d) ==
    UNION { LET rows == RowsOf(GetAvailableFolders(root, d, listing,
                                                   ReadableNames))
            IN  { rows[i] : i \in DOMAIN rows } :
            listing \in Listings(DOMAIN d) }

\* C23: a failed search persists nothing.  When the provider fails while
\* search_papers takes its results, every registry file is after the call
\* what it was before it, the registry of the search among them, a
\* directory the call made has no registry file, and get_available_folders
\* shows no row it did not show before.
FailedSearchPersistsNothing ==
    [][(SearchStep /\ ret'[1].status = "raised") =>
         /\ \A s \in DOMAIN dirs : s \in DOMAIN dirs' /\ dirs'[s] = dirs[s]
         /\ \A s \in DOMAIN dirs' \ DOMAIN dirs : dirs'[s].kind = "absent"
         /\ Filed(dirs') = Filed(dirs)
         /\ StoredIds(dirs', ret'[1].slug) = StoredIds(dirs, ret'[1].slug)
         /\ ShownRows(rootExists', dirs') \subseteq ShownRows(rootExists, dirs)]_vars

\* the index was listed after a search of a new topic had failed, while
\* another topic had a registry with a paper
FailedSearchPersistsNothingWitness ==
    /\ IsList(out)
    /\ ret[1].op = "search" /\ ret[1].status = "raised"
    /\ dirs[ret[1].slug].kind = "absent"
    /\ IsSearchOk(prev) /\ prev.slug # ret[1].slug
    /\ StoredIds(dirs, prev.slug) # {}
    /\ Len(RowsOf(out.value)) = 1

\* a step of extract_info, get_available_folders or get_topic_papers
ReadStep == out' # NoRet /\ out'.op \in {"lookup", "list", "render"}

\* C24: the read-only accessors do not write.  A call of extract_info,
\* get_available_folders or get_topic_papers leaves the papers directory,
\* the set of topic directories and every registry file as they were:
\* with the root missing, with a directory that has no file, with a
\* damaged file and with a valid one.
ReadsDoNotWrite ==
    [][ReadStep => /\ rootExists' = rootExists
                   /\ DOMAIN dirs' = DOMAIN dirs
                   /\ \A s \in DOMAIN dirs : dirs'[s] = dirs[s]]_vars

\* a topic was rendered while one directory had no file, another a damaged
\* file, and the topic asked for has no directory
ReadsDoNotWriteWitness ==
    /\ IsRender(out)
    /\ \E s \in DOMAIN dirs : dirs[s].kind = "absent"
    /\ \E s \in DOMAIN dirs : dirs[s].kind = "corrupt"
    /\ TopicLocals[out.par.topic].topic_dir \notin DOMAIN dirs

\* C25: a search touches one registry only.  A call of search_papers
\* whose query and author give the slug S makes no directory but that of
\* S and writes no file but that of S: every directory with another name,
\* and its file, is after the call what it was before it.
SearchTouchesOneRegistry ==
    [][SearchStep =>
         /\ DOMAIN dirs' \subseteq DOMAIN dirs \cup {ret'[1].slug}
         /\ \A s \in DOMAIN dirs \ {ret'[1].slug} :
               s \in DOMAIN dirs' /\ dirs'[s] = dirs[s]]_vars

\* a search stored a paper in its registry while the registry of another
\* slug held a paper
SearchTouchesOneRegistryWitness ==
    /\ IsSearchOk(ret[1]) /\ IsSearchOk(prev)
    /\ prev.slug # ret[1].slug
    /\ ret[1].value.new_papers > 0
    /\ StoredIds(dirs, prev.slug) # {}
    /\ StoredIds(dirs, prev.slug) # StoredIds(dirs, ret[1].slug)

\* the query in small letters, its spaces and "/" made underscores, cut to
\* 50 characters
SlugBase(query) ==
    Take(Replace(Replace(Lower(query), " ", "_"), "/", "_"), SlugMax)

\* C26: the slug is not injective.  When a search follows a search with
\* another query and the same author filter, and the two queries are equal
\* once they are in small letters, their spaces and "/" are underscores and
\* they are cut to 50 characters, the second search goes to the registry of
\* the first: it reports as new only the identifiers the registry did not
\* hold, it leaves every record of the registry as it was, and the records
\* the first search stored name the first query in their search_params.
SlugCollisionMerges ==
    [][(/\ SearchStep
        /\ IsSearchOk(ret[1]) /\ IsSearchOk(ret'[1])
        /\ ret[1].par.query # ret'[1].par.query
        /\ ret[1].par.author_search = ret'[1].par.author_search
        /\ SlugBase(ret[1].par.query) = SlugBase(ret'[1].par.query))
       => LET first  == ret[1]
              second == ret'[1]
              s      == first.slug
          IN  /\ second.slug = s
              /\ second.value.storage_path = first.value.storage_path
              /\ second.value.new_papers
                    = Cardinality(Ids(second.results) \ StoredIds(dirs, s))
              /\ StoredIds(dirs', s)
                    = StoredIds(dirs, s) \cup Ids(second.results)
              /\ \A k \in StoredIds(dirs, s) :
                    dirs'[s].recs[k] = dirs[s].recs[k]
              /\ AllNew(first) =>
                    \A k \in Ids(first.results) :
                       dirs'[s].recs[k].search_params.query
                          = first.par.query]_vars

\* a search for LongTwin found again the paper that a search for LongQuery
\* had stored, and another paper
SlugCollisionMergesWitness ==
    /\ IsSearchOk(prev) /\ IsSearchOk(ret[1])
    /\ prev.par.query = LongQuery /\ ret[1].par.query = LongTwin
    /\ prev.slug = ret[1].slug
    /\ AllNew(prev) /\ Len(prev.results) = 2
    /\ Ids(ret[1].results) \subseteq Ids(prev.results)
    /\ ret[1].value.new_papers = 0
    /\ \A k \in Ids(prev.results) :
          dirs[prev.slug].recs[k].search_params.query = LongQuery

\* a search of a slug that has no registry file succeeds with no result
EmptySearchStep ==
    /\ SearchStep
    /\ IsSearchOk(ret'[1]) /\ ret'[1].results = << >>
    /\ ret'[1].slug \notin Filed(dirs)

\* what get_topic_papers returns for the slug after the step
RenderedAfter(slug) ==
    GetTopicPapers(dirs', slug, TopicLocals[slug].topic_dir,
                   TopicLocals[slug].head)

\* the registry file of the step's slug holds the empty mapping, the search
\* reports no paper found and none new, and get_available_folders has one
\* row for the slug, with 0 papers
EmptyRegistryFiled ==
    LET r == ret'[1] IN
    /\ r.slug \in DOMAIN dirs' /\ dirs'[r.slug] = Dump(EmptyInfo)
    /\ r.value.total_found = 0 /\ r.value.new_papers = 0
    /\ r.value.paper_ids = << >>
    /\ \A listing \in Listings(DOMAIN dirs') :
          LET lines == GetAvailableFolders(rootExists', dirs', listing,
                                           ReadableNames)
          IN  Cardinality({ i \in DOMAIN lines :
                               EndsWith(lines[i], RowEnd(r.slug, 0)) }) = 1

\* C27: a successful search with an empty result still creates the
\* registry.  After a search of a slug without a registry file got no
\* result from the provider, the file of the slug exists and holds the
\* empty mapping, the search reports total_found 0 and new_papers 0,
\* get_available_folders lists the slug with 0 papers, and
\* get_topic_papers of the slug gives the page of the topic with
\* "Total papers: 0".
EmptySearchCreatesRegistry ==
    [][EmptySearchStep =>
         /\ EmptyRegistryFiled
         /\ IsTopicPage(RenderedAfter(ret'[1].slug))
         /\ RenderedAfter(ret'[1].slug)[3] = "**Total papers**: 0"]_vars

====
